---- MODULE Spec2Model ----
(***************************************************************************)
(* HyperCache: the HyperMap open-addressing table, its HyperSlot records    *)
(* and the SlotOperator handle (src/src/lib/hypermap/hypermap.hpp), with    *)
(* the key hash of src/lib/hyperhash/hyperhash.hpp.                         *)
(*                                                                         *)
(* 32-bit words are pairs <<hi, lo>> of 16-bit halves, so that every       *)
(* uint32_t operation of the hash wraps modulo 2^32 as it does in C++.     *)
(***************************************************************************)
EXTENDS Integers, Sequences, FiniteSets, TLC

(***************************************************************************)
(* Bounds of the model                                                     *)
(***************************************************************************)
\* number of distinct non-empty keys the clients use
NumKeys == 3
\* number of distinct non-default values the clients store
NumVals == 2
\* largest capacity the table operations are explored on
MaxSmallSize == 4
\* number of table operations explored after construction
MaxOps == 3
\* number of operations the threads start in a concurrent run
MaxConcOps == 3
\* number of operations explored on one DataChunk
MaxChunkOps == 3
\* the words handed to the hash combiner are 0..MaxHashWord and their
\* complements
MaxHashWord == 5

(***************************************************************************)
(* 16/32-bit arithmetic                                                    *)
(***************************************************************************)
TwoTo8 == 2^8
TwoTo16 == 2^16

RECURSIVE BitXor(_, _)
BitXor(a, b) ==
    IF a = 0 THEN b
    ELSE IF b = 0 THEN a
    ELSE (((a % 2) + (b % 2)) % 2) + 2 * BitXor(a \div 2, b \div 2)

RECURSIVE BitAnd(_, _)
BitAnd(a, b) ==
    IF a = 0 \/ b = 0 THEN 0
    ELSE ((a % 2) * (b % 2)) + 2 * BitAnd(a \div 2, b \div 2)

RECURSIVE BitOr(_, _)
BitOr(a, b) ==
    IF a = 0 THEN b
    ELSE IF b = 0 THEN a
    ELSE (IF (a % 2) = 1 \/ (b % 2) = 1 THEN 1 ELSE 0) + 2 * BitOr(a \div 2, b \div 2)

\* a uint32_t with the given halves
W(hi, lo) == <<hi, lo>>
\* static_cast<uint32_t> of a small non-negative integer
U32(n) == <<(n \div TwoTo16) % TwoTo16, (n % TwoTo16)>>

\* (x * y) mod 2^16 for 16-bit x, y, without leaving 31 bits
Mul16Lo(x, y) ==
    (((x % TwoTo8) * y) + ((((x \div TwoTo8) * y) % TwoTo8) * TwoTo8)) % TwoTo16

\* the full 32-bit product of two 16-bit numbers, as a word
Mul16Full(x, y) ==
    LET x1 == x \div TwoTo8
        x0 == x % TwoTo8
        y1 == y \div TwoTo8
        y0 == y % TwoTo8
        mid == (x1 * y0) + (x0 * y1)
        t == (x0 * y0) + ((mid % TwoTo8) * TwoTo8)
    IN  <<((x1 * y1) + (mid \div TwoTo8) + (t \div TwoTo16)) % TwoTo16, (t % TwoTo16)>>

\* uint32_t a + b
Add32(a, b) ==
    LET lo == a[2] + b[2]
    IN  <<(a[1] + b[1] + (lo \div TwoTo16)) % TwoTo16, (lo % TwoTo16)>>

\* uint32_t a * b
Mul32(a, b) ==
    LET p == Mul16Full(a[2], b[2])
    IN  <<(p[1] + Mul16Lo(a[1], b[2]) + Mul16Lo(a[2], b[1])) % TwoTo16, p[2]>>

\* uint32_t a ^ b
Xor32(a, b) == <<BitXor(a[1], b[1]), BitXor(a[2], b[2])>>

\* uint32_t a | b
Or32(a, b) == <<BitOr(a[1], b[1]), BitOr(a[2], b[2])>>

\* uint32_t val >> s, 0 <= s < 32
Shr32(val, s) ==
    IF s >= 16
    THEN <<0, val[1] \div (2^(s - 16))>>
    ELSE <<val[1] \div (2^s),
           (val[2] \div (2^s)) + ((val[1] % (2^s)) * (2^(16 - s)))>>

\* uint32_t val << s, 0 < s <= 32
Shl32(val, s) ==
    IF s >= 32 THEN <<0, 0>>
    ELSE IF s >= 16
    THEN <<(val[2] % (2^(32 - s))) * (2^(s - 16)), 0>>
    ELSE <<((val[1] % (2^(16 - s))) * (2^s)) + (val[2] \div (2^(16 - s))),
           (val[2] % (2^(16 - s))) * (2^s)>>

(***************************************************************************)
(* hyperhash                                                               *)
(***************************************************************************)
\* 0xcc9e2d51 and 0x1b873593
hash_c1 == W(52382, 11601)
hash_c2 == W(7047, 13715)

\* a Rotate32 that rotates to the left
Rotate32_Left(val, shift) ==
    IF shift = 0 THEN val ELSE Or32(Shl32(val, shift), Shr32(val, 32 - shift))

\* the rotation to the right: the low bits of val move to the top
Rotate32(val, shift) ==
    IF shift = 0 THEN val ELSE Or32(Shr32(val, shift), Shl32(val, 32 - shift))

fmix(h0) ==
    LET h1 == Xor32(h0, Shr32(h0, 16))
        h2 == Mul32(h1, W(34283, 51819))
        h3 == Xor32(h2, Shr32(h2, 13))
        h4 == Mul32(h3, W(49842, 44597))
    IN  Xor32(h4, Shr32(h4, 16))

Mur(a0, h0) ==
    LET a1 == Mul32(a0, hash_c1)
        a2 == Rotate32(a1, 17)
        a3 == Mul32(a2, hash_c2)
        h1 == Xor32(h0, a3)
        h2 == Rotate32(h1, 19)
    IN  Add32(Mul32(h2, U32(5)), W(58964, 27492))

\* static_cast<uint32_t>(static_cast<signed char>(byte))
SignExtend(byte) ==
    IF byte >= 128 THEN <<TwoTo16 - 1, TwoTo16 - TwoTo8 + byte>> ELSE <<0, byte>>

\* the loop of Hash32Len0to4 over s[i..len], carrying <<b, c>>
RECURSIVE Len0to4Loop(_, _, _, _)
Len0to4Loop(s, i, b, c) ==
    IF i > Len(s) THEN <<b, c>>
    ELSE LET nb == Add32(Mul32(b, hash_c1), SignExtend(s[i]))
         IN  Len0to4Loop(s, i + 1, nb, Xor32(c, nb))

Hash32Len0to4(s) ==
    LET bc == Len0to4Loop(s, 1, U32(0), U32(9))
    IN  fmix(Mur(bc[1], Mur(U32(Len(s)), bc[2])))

\* keys of the model are at most 4 bytes long, the first branch of hash()
hash(key) == Hash32Len0to4(key)

(***************************************************************************)
(* Keys, values and slots                                                  *)
(***************************************************************************)
\* std::string keys as byte sequences; the empty string marks a free slot
EmptyKey == <<>>
Keys == {EmptyKey} \cup {<<b>> : b \in 98..(97 + NumKeys)}

\* the keys the threads use
ConcKeys == {<<b>> : b \in 98..99}

\* values of the slot's variant, 0 being the default-constructed one
DefaultVal == 0
Values == 1..NumVals

\* nullptr, as a slot index
NULL == -1

\* a value of the slot's variant that holds a GroupChunk; the chunk's members
\* are the slot's group
GroupChunk == -2

\* a default-constructed HyperSlot.  val is the content of the variant; group
\* and group_assignments are the GroupChunk::group and the
\* DataChunk::group_assignments of the chunk that lives in the slot
HyperSlot == [atom_id |-> 0, key |-> EmptyKey, val |-> DefaultVal,
              group |-> {}, group_assignments |-> {}]

\* "slot->val = val": the chunk in the slot is replaced by a fresh one
AssignVal(m, slot, val) ==
    [m EXCEPT ![slot].val = val, ![slot].group = {},
              ![slot].group_assignments = {}]

\* the 16-bit capacity and occupied counters wrap modulo 2^16
Wrap16(n) == n % TwoTo16

(***************************************************************************)
(* State                                                                   *)
(***************************************************************************)
VARIABLES
    ctor,       \* "none" before construction, then "ok" or "BadCapacity"
    size,       \* HyperMap::size
    occupied,   \* HyperMap::occupied
    map,        \* HyperMap::map, slot index -> HyperSlot
    crashed,    \* the process dereferenced nullptr
    held,       \* the SlotOperator the sequential client holds
    last,       \* the last completed operation and its outcome
    prev,       \* the operation completed before last
    nops,       \* operations performed since construction
    usedEmptyKey, \* some operation was called with the empty string as key
    lock,       \* per slot: the thread owning it uniquely and the sharers
    pc,         \* per thread: the statement it executes next
    loc,        \* per thread: the locals of the operation it executes
    yielded,    \* what the last operation handed out: handles or references
    chunk,      \* a DataChunk on its own, as a callback sees it
    cop,        \* the last operation on chunk and its outcome
    hcall       \* the last call into hyperhash, its arguments and its result

\* the state of the sequential client, and of the threads
cvars == <<lock, pc, loc>>
\* the DataChunk that is operated on outside a table, and the hash that is
\* called outside a table
dvars == <<chunk, cop, hcall>>
vars == <<ctor, size, occupied, map, crashed, held, last, prev, nops,
          usedEmptyKey, lock, pc, loc, yielded, chunk, cop, hcall>>

\* a SlotOperator: slot_ptr and operator_id, with the key it was obtained for
\* and whether that key was removed or re-inserted since (both for the
\* properties only)
NoHandle == [slot |-> NULL, operator_id |-> 0, key |-> EmptyKey, stale |-> FALSE]
NoOp == [op |-> "none", key |-> EmptyKey, val |-> 0, slot |-> NULL,
         res |-> "none", out |-> NULL]
OpRec(o, k, v, s, r, d) ==
    [op |-> o, key |-> k, val |-> v, slot |-> s, res |-> r, out |-> d]

\* the threads that use the table concurrently
Threads == {1, 2}
\* no thread, as the owner of a lock
NoThread == 0
FreeLock == [w |-> NoThread, r |-> {}]
\* enum DataType
NONE == -1
PROTO == 0
COUNT == 1
GROUP == 2
\* no DataChunk is operated on outside a table
NoChunk == [type |-> NONE]
\* a uint64_t as four 16-bit limbs, most significant first
U64(l3, l2, l1, l0) == <<l3, l2, l1, l0>>
Zero64 == U64(0, 0, 0, 0)

\* the return values that are not part of an operation's result
NoRet == [bytes |-> <<>>, size |-> 0, count |-> Zero64, group |-> {}]
\* the last operation on the chunk: its name, its arguments (the payload of
\* set_proto, the value of set_count, the delta of inc_count, the chunk of
\* push_group and del_group), whether it threw, what it returned, the
\* operation before it, the chunk before it, and the operations so far
NoChunkOp == [op |-> "none", res |-> "none", ret |-> NoRet,
              payload |-> [len |-> 0, first |-> 0], val |-> Zero64,
              delta |-> [neg |-> FALSE, mag |-> Zero64], ref |-> 0,
              after |-> "none", before |-> NoChunk, n |-> 0]
\* no call into hyperhash: the function called, the key of hash, the
\* arguments a and h of Mur, what Mur returned and what the call returned
NoHash == [fn |-> "none", key |-> EmptyKey, a |-> U32(0), h |-> U32(0),
           mur |-> U32(0), ret |-> U32(0)]
\* the locals of a thread: the operation and its arguments, the probe's slot
\* and attempt, the value read for "occupied +=", the thread's SlotOperator,
\* and the outcome of its last operation
NoLocals == [op |-> "none", key |-> EmptyKey, val |-> 0, slot |-> NULL,
             att |-> 0, tmp |-> 0, h |-> NoHandle, res |-> "none",
             out |-> NULL]

(***************************************************************************)
(* HyperMap: construction                                                  *)
(***************************************************************************)
\* capacities handed to the constructor
CtorArgs == (0..MaxSmallSize) \cup {2^15, 2^16 - 1, 2^16}

\* the constructor's check without its "mapsize > 0" conjunct
IsPowerOfTwoCheck_ZeroAccepted(mapsize) ==
    BitAnd(mapsize, mapsize - 1) = 0

\* the check of the constructor on its uint16_t parameter
IsPowerOfTwoCheck(mapsize) ==
    mapsize > 0 /\ BitAnd(mapsize, mapsize - 1) = 0

HyperMap(arg) ==
    /\ ctor = "none"
    /\ LET mapsize == Wrap16(arg)
       IN  IF ~IsPowerOfTwoCheck(mapsize)
           THEN /\ ctor' = "BadCapacity"
                /\ UNCHANGED <<size, occupied, map>>
           ELSE /\ ctor' = "ok"
                /\ size' = mapsize
                /\ occupied' = 0
                /\ map' = [i \in 0..(mapsize - 1) |-> HyperSlot]
    /\ last' = OpRec("construct", EmptyKey, arg, NULL, ctor', NULL)
    /\ prev' = last
    /\ UNCHANGED <<crashed, held, nops, usedEmptyKey, cvars, yielded, dvars>>

\* HyperMap::load
load == occupied

(***************************************************************************)
(* HyperMap::probe                                                         *)
(***************************************************************************)
\* hyperhash::hash(key) of every key of the model, computed once
KeyHash == [k \in Keys |-> hash(k)]

\* constants for quadratic probing
c1 == 1
c2 == 3

\* hash & (size-1), for a capacity below 2^16
Trim(h, sz) == BitAnd(h[2], sz - 1)

\* (hash + c1 * att + c2 * (att * att)) & (size-1)
ProbeIdx(h, att, sz) == Trim(Add32(h, U32(c1 * att + c2 * (att * att))), sz)

\* the while loop of probe, entered with the slot at idx and attempt att:
\* the index of the slot at which the loop condition fails, or NULL when
\* the loop returns nullptr
RECURSIVE ProbeLoop(_, _, _, _, _)
ProbeLoop(key, sz, m, idx, att) ==
    IF m[idx].key = EmptyKey \/ m[idx].key = key
    THEN idx
    ELSE IF att + 1 > sz
         THEN NULL
         ELSE ProbeLoop(key, sz, m, ProbeIdx(KeyHash[key], att, sz), att + 1)

\* probe has no return statement after its loop: control flows off the end
\* of a non-void function.  The value the caller receives is undefined; the
\* builds return either the slot the loop stopped at or nullptr.
FlowsOffEnd(idx) == {idx, NULL}

probe(key, sz, m) ==
    LET stop == ProbeLoop(key, sz, m, Trim(KeyHash[key], sz), 0)
    IN  IF stop = NULL THEN {NULL} ELSE FlowsOffEnd(stop)

(***************************************************************************)
(* SlotOperator                                                            *)
(***************************************************************************)
\* the constructor captures the slot's atom_id
SlotOperator(m, slot, key) ==
    [slot |-> slot, operator_id |-> m[slot].atom_id, key |-> key,
     stale |-> FALSE]

\* the client's handle h after the slot that held key in table m was
\* cleared by del(key) or overwritten by set(key, ...)
Outdated(h, key, slot, m) ==
    IF h # NoHandle /\ h.key = key /\ h.slot = slot /\ m[slot].key = key
    THEN [h EXCEPT !.stale = TRUE]
    ELSE h

\* "if (slot_ptr->atom_id != operator_id) return false"
Invalidated(m, h) == m[h.slot].atom_id # h.operator_id

\* the table m with every group's reference to the chunk of key marked, when
\* del(key) is about to clear the slot that holds it (for the properties
\* only: no statement of del touches a group)
Removed(m, key, slot) ==
    IF m[slot].key # key THEN m
    ELSE [i \in DOMAIN m |->
            [m[i] EXCEPT !.group =
                {IF r.slot = slot /\ r.key = key
                 THEN [r EXCEPT !.stale = TRUE] ELSE r : r \in @}]]

(***************************************************************************)
(* Table operations of one client, each run to completion                  *)
(***************************************************************************)
CanOperate ==
    /\ ctor = "ok"
    /\ ~crashed
    /\ size <= MaxSmallSize
    /\ nops < MaxOps

\* the operation recorded as rec has completed and handed out y
DoneYield(rec, y) ==
    /\ last' = rec
    /\ prev' = last
    /\ nops' = nops + 1
    /\ usedEmptyKey' = (usedEmptyKey \/ (rec.key = EmptyKey /\ rec.op # "iterate"))
    /\ yielded' = y
    /\ UNCHANGED cvars
    /\ UNCHANGED dvars

Done(rec) == DoneYield(rec, {})

\* dereferencing the nullptr that probe returned
NullDeref(o, k, v) ==
    /\ crashed' = TRUE
    /\ Done(OpRec(o, k, v, NULL, "crash", NULL))
    /\ UNCHANGED <<ctor, size, occupied, map, held>>

get(key) ==
    /\ CanOperate
    /\ \E slot \in probe(key, size, map) :
          IF slot = NULL
          THEN NullDeref("get", key, 0)
          ELSE /\ held' = SlotOperator(map, slot, key)
               /\ Done(OpRec("get", key, 0, slot, "handle", NULL))
               /\ UNCHANGED <<ctor, size, occupied, map, crashed>>

\* keep: the client discards the returned SlotOperator and keeps its old one
set(key, val, keep) ==
    /\ CanOperate
    /\ \E slot \in probe(key, size, map) :
          IF slot = NULL
          THEN NullDeref("set", key, val)
          ELSE LET m2 == AssignVal([map EXCEPT ![slot].key = key], slot, val)
               IN  /\ map' = m2
                   /\ occupied' = Wrap16(occupied +
                                     (IF m2[slot].key = EmptyKey THEN 1 ELSE 0))
                   /\ held' = IF keep THEN Outdated(held, key, slot, map)
                                      ELSE SlotOperator(m2, slot, key)
                   /\ Done(OpRec("set", key, val, slot, "handle", NULL))
                   /\ UNCHANGED <<ctor, size, crashed>>

del(key) ==
    /\ CanOperate
    /\ \E slot \in probe(key, size, map) :
          IF slot = NULL
          THEN /\ Done(OpRec("del", key, 0, NULL, "returned", NULL))
               /\ UNCHANGED <<ctor, size, occupied, map, crashed, held>>
          ELSE /\ map' = AssignVal(
                           [Removed(map, key, slot) EXCEPT ![slot].key = EmptyKey],
                           slot, DefaultVal)
               /\ occupied' = Wrap16(occupied - 1)
               /\ held' = Outdated(held, key, slot, map)
               /\ Done(OpRec("del", key, 0, slot, "returned", NULL))
               /\ UNCHANGED <<ctor, size, crashed>>

\* a SlotOperator::read that advances the slot's atom_id when it has
\* delivered the value, so that a handle reads once
read_Consumes ==
    /\ CanOperate
    /\ held # NoHandle
    /\ IF Invalidated(map, held)
       THEN /\ Done(OpRec("read", held.key, 0, held.slot, "false", NULL))
            /\ UNCHANGED map
       ELSE /\ Done(OpRec("read", held.key, 0, held.slot, "true",
                          map[held.slot].val))
            /\ map' = [map EXCEPT ![held.slot].atom_id = @ + 1]
    /\ UNCHANGED <<ctor, size, occupied, crashed, held>>

read ==
    /\ CanOperate
    /\ held # NoHandle
    /\ IF Invalidated(map, held)
       THEN Done(OpRec("read", held.key, 0, held.slot, "false", NULL))
       ELSE Done(OpRec("read", held.key, 0, held.slot, "true",
                       map[held.slot].val))
    /\ UNCHANGED <<ctor, size, occupied, map, crashed, held>>

\* SlotOperator::write incrementing the slot's atom_id before it returns
write_AdvancesId(val) ==
    /\ CanOperate
    /\ held # NoHandle
    /\ IF Invalidated(map, held)
       THEN /\ Done(OpRec("write", held.key, val, held.slot, "false", NULL))
            /\ UNCHANGED map
       ELSE /\ map' = [map EXCEPT ![held.slot].val = val,
                                  ![held.slot].atom_id = @ + 1]
            /\ Done(OpRec("write", held.key, val, held.slot, "true", val))
    /\ UNCHANGED <<ctor, size, occupied, crashed, held>>

write(val) ==
    /\ CanOperate
    /\ held # NoHandle
    /\ IF Invalidated(map, held)
       THEN /\ Done(OpRec("write", held.key, val, held.slot, "false", NULL))
            /\ UNCHANGED map
       ELSE /\ map' = [map EXCEPT ![held.slot].val = val]
            /\ Done(OpRec("write", held.key, val, held.slot, "true", val))
    /\ UNCHANGED <<ctor, size, occupied, crashed, held>>

\* an iterator that does not skip the empty slots
SkipEmpty_None(m, idx) == idx

\* "while (idx < size && map[idx].key == "") idx++" on the uint16_t idx
RECURSIVE SkipEmpty(_, _)
SkipEmpty(m, idx) ==
    IF idx < size /\ m[idx].key = EmptyKey
    THEN SkipEmpty(m, Wrap16(idx + 1))
    ELSE idx

\* HyperMap::begin and HyperMap::end, as the idx of the iterator
begin == SkipEmpty(map, 0)
end == size

\* HyperMapIterator::operator++: "do { idx++; } while (...)"
Increment(idx) == SkipEmpty(map, Wrap16(idx + 1))

\* HyperMapIterator::operator*
Deref(idx) == SlotOperator(map, idx, map[idx].key)

\* "for (it = begin(); it != end(); ++it)" collecting *it: the n-th handle
\* and those after it
RECURSIVE ForEach(_, _)
ForEach(it, n) ==
    IF it = end THEN {}
    ELSE {[pos |-> n, h |-> Deref(it)]} \cup ForEach(Increment(it), n + 1)

iterate ==
    /\ CanOperate
    /\ DoneYield(OpRec("iterate", EmptyKey, 0, NULL, "done", NULL),
                 ForEach(begin, 1))
    /\ UNCHANGED <<ctor, size, occupied, map, crashed, held>>

Init ==
    /\ ctor = "none"
    /\ size = 0
    /\ occupied = 0
    /\ map = <<>>
    /\ crashed = FALSE
    /\ held = NoHandle
    /\ last = NoOp
    /\ prev = NoOp
    /\ nops = 0
    /\ usedEmptyKey = FALSE
    /\ lock = <<>>
    /\ pc = [t \in Threads |-> "idle"]
    /\ loc = [t \in Threads |-> NoLocals]
    /\ yielded = {}
    /\ chunk = NoChunk
    /\ cop = NoChunkOp
    /\ hcall = NoHash

Next ==
    \/ \E arg \in CtorArgs : HyperMap(arg)
    \/ \E key \in Keys : get(key)
    \/ \E key \in Keys, val \in Values, keep \in BOOLEAN : set(key, val, keep)
    \/ \E key \in Keys : del(key)
    \/ read
    \/ write(DefaultVal)
    \/ \E val \in Values : write(val)
    \/ iterate

Spec == Init /\ [][Next]_vars

(***************************************************************************)
(* GroupChunk, operated on through the SlotOperator of the group's slot    *)
(***************************************************************************)
\* capacity of the table that holds the group and its members
GroupSize == 2^2
\* the key of the group and the key of the member present at the start
GroupKey == <<98>>
MemberKey == <<99>>

\* a group's reference to a member chunk, "chunk.get_weak()": the chunk lives
\* in its slot, so the reference is the slot.  The atom_id and the key of the
\* slot at that moment are kept with it for the properties only.
get_weak(m, slot) == SlotOperator(m, slot, m[slot].key)

\* unordered_set::insert and erase of a reference; references are equal
\* when they refer to the same chunk
Insert(refs, ref) ==
    IF \E r \in refs : r.slot = ref.slot THEN refs ELSE refs \cup {ref}
Erase(refs, slot) == {r \in refs : r.slot # slot}

\* a push_group that inserts into the group and leaves out
\* "chunk.add_assign(this->get_weak())"
OnGroup_NoAssign(o, key, slot) ==
    IF map[held.slot].val # GroupChunk
    THEN /\ Done(OpRec(o, key, 0, slot, "WrongKind", NULL))
         /\ UNCHANGED map
    ELSE IF o = "push_group"
    THEN /\ map' = [map EXCEPT
                      ![held.slot].group = Insert(@, get_weak(map, slot))]
         /\ Done(OpRec(o, key, 0, slot, "ok", NULL))
    ELSE /\ map' = [map EXCEPT ![held.slot].group = Erase(@, slot)]
         /\ Done(OpRec(o, key, 0, slot, "ok", NULL))

\* what a callback of the held SlotOperator does to the chunk it receives,
\* applied to the chunk of the member the client looked up with get(key)
OnGroup(o, key, slot) ==
    IF map[held.slot].val # GroupChunk
    THEN /\ Done(OpRec(o, key, 0, slot, "WrongKind", NULL))
         /\ UNCHANGED map
    ELSE IF o = "push_group"
    THEN /\ map' = [map EXCEPT
                      ![held.slot].group = Insert(@, get_weak(map, slot)),
                      ![slot].group_assignments =
                          Insert(@, get_weak(map, held.slot))]
         /\ Done(OpRec(o, key, 0, slot, "ok", NULL))
    ELSE /\ map' = [map EXCEPT ![held.slot].group = Erase(@, slot)]
         /\ Done(OpRec(o, key, 0, slot, "ok", NULL))

WithMember(o, key) ==
    /\ CanOperate
    /\ held # NoHandle
    /\ IF Invalidated(map, held)
       THEN /\ Done(OpRec(o, key, 0, held.slot, "false", NULL))
            /\ UNCHANGED <<ctor, size, occupied, map, crashed, held>>
       ELSE \E slot \in probe(key, size, map) :
               IF slot = NULL
               THEN NullDeref(o, key, 0)
               ELSE /\ slot # held.slot
                    /\ OnGroup(o, key, slot)
                    /\ UNCHANGED <<ctor, size, occupied, crashed, held>>

push_group(key) == WithMember("push_group", key)
del_group(key) == WithMember("del_group", key)

\* the read callback of the held SlotOperator enumerates the group
get_group ==
    /\ CanOperate
    /\ held # NoHandle
    /\ IF Invalidated(map, held)
       THEN Done(OpRec("get_group", held.key, 0, held.slot, "false", NULL))
       ELSE IF map[held.slot].val # GroupChunk
       THEN Done(OpRec("get_group", held.key, 0, held.slot, "WrongKind", NULL))
       ELSE DoneYield(OpRec("get_group", held.key, 0, held.slot, "ok", NULL),
                      map[held.slot].group)
    /\ UNCHANGED <<ctor, size, occupied, map, crashed, held>>

\* the table after HyperMap(4); set(GroupKey, GroupChunk); set(MemberKey, 1),
\* the client having kept the SlotOperator of the group; nops counts the
\* operations from here
GroupTable ==
    LET g == Trim(KeyHash[GroupKey], GroupSize)
        c == Trim(KeyHash[MemberKey], GroupSize)
    IN  [i \in 0..(GroupSize - 1) |->
            IF i = g THEN [HyperSlot EXCEPT !.key = GroupKey, !.val = GroupChunk]
            ELSE IF i = c THEN [HyperSlot EXCEPT !.key = MemberKey, !.val = 1]
            ELSE HyperSlot]

InitGroup ==
    /\ ctor = "ok"
    /\ size = GroupSize
    /\ occupied = 0
    /\ map = GroupTable
    /\ crashed = FALSE
    /\ held = SlotOperator(GroupTable, Trim(KeyHash[GroupKey], GroupSize), GroupKey)
    /\ last = OpRec("set", MemberKey, 1, Trim(KeyHash[MemberKey], GroupSize),
                    "handle", NULL)
    /\ prev = OpRec("set", GroupKey, GroupChunk,
                    Trim(KeyHash[GroupKey], GroupSize), "handle", NULL)
    /\ nops = 0
    /\ usedEmptyKey = FALSE
    /\ lock = <<>>
    /\ pc = [t \in Threads |-> "idle"]
    /\ loc = [t \in Threads |-> NoLocals]
    /\ yielded = {}
    /\ chunk = NoChunk
    /\ cop = NoChunkOp
    /\ hcall = NoHash

NextGroup ==
    \/ \E key \in Keys : get(key)
    \/ \E key \in Keys, val \in Values \cup {GroupChunk}, keep \in BOOLEAN :
          set(key, val, keep)
    \/ \E key \in Keys : del(key)
    \/ \E key \in Keys : push_group(key)
    \/ \E key \in Keys : del_group(key)
    \/ get_group

SpecGroup == InitGroup /\ [][NextGroup]_vars

(***************************************************************************)
(* DataChunk and its derived types, as the callback of a SlotOperator      *)
(* sees them                                                               *)
(***************************************************************************)
\* numeric_limits<uint8_t>::max()
quick_cap == 255

\* the conversion of an integer to uint8_t
U8(n) == n % TwoTo8

\* the byte buffers the client writes, by length and first byte; the bytes
\* count upwards from the first one
PayloadLens == {0, 2, 254, 255, 256, 500, 2^16}
PayloadFirsts == {1, 255}
PayloadIds == {[len |-> n, first |-> f] : n \in PayloadLens, f \in PayloadFirsts}
Payload == [p \in PayloadIds |-> [i \in 1..p.len |-> (p.first + i - 1) % TwoTo8]]

\* the first n bytes at a pointer
Bytes(buf, n) == [i \in 1..n |-> buf[i]]

\* uint64_t a + b
Add64(a, b) ==
    LET s0 == a[4] + b[4]
        s1 == a[3] + b[3] + (s0 \div TwoTo16)
        s2 == a[2] + b[2] + (s1 \div TwoTo16)
        s3 == a[1] + b[1] + (s2 \div TwoTo16)
    IN  <<(s3 % TwoTo16), (s2 % TwoTo16), (s1 % TwoTo16), (s0 % TwoTo16)>>

\* ~a
Not64(a) == [i \in 1..4 |-> (TwoTo16 - 1) - a[i]]

\* an int64_t is its sign and its magnitude; the conversion to uint64_t that
\* "count += inc_count" applies to it
ToU64(d) == IF d.neg THEN Add64(Not64(d.mag), U64(0, 0, 0, 1)) ELSE d.mag

\* the default-constructed chunks.  quick_bytes is not initialized; no
\* operation reads a byte of it before writing it.
NewChunk(type) ==
    IF type = PROTO
    THEN [type |-> PROTO, quick_mode |-> TRUE, quick_size |-> 0,
          quick_bytes |-> [i \in 1..quick_cap |-> 0], bulk_bytes |-> <<>>]
    ELSE IF type = COUNT
    THEN [type |-> COUNT, count |-> Zero64]
    ELSE [type |-> GROUP, group |-> {}]

\* the values the client stores in a counter, 2^64 - 1 and 2^63 among them
CountVals ==
    {Zero64, U64(0, 0, 0, 1), U64(0, 0, 65535, 65535), U64(32768, 0, 0, 0),
     U64(65535, 65535, 65535, 65535)}
\* the deltas the client adds: 1, 3, -1, 2^63 - 1 and -2^63
Deltas ==
    {[neg |-> FALSE, mag |-> U64(0, 0, 0, 1)],
     [neg |-> FALSE, mag |-> U64(0, 0, 0, 3)],
     [neg |-> TRUE, mag |-> U64(0, 0, 0, 1)],
     [neg |-> FALSE, mag |-> U64(32767, 65535, 65535, 65535)],
     [neg |-> TRUE, mag |-> U64(32768, 0, 0, 0)]}
\* the other chunks a group is told about
ChunkRefs == 1..2

\* everything but the chunk
hvars == <<ctor, size, occupied, map, crashed, held, last, prev, nops,
           usedEmptyKey, lock, pc, loc, yielded, hcall>>

CanCall ==
    /\ chunk.type # NONE
    /\ cop.n < MaxChunkOps

\* the operation o has returned ret
Returned(o, ret) ==
    [cop EXCEPT !.op = o, !.res = "ok", !.ret = ret, !.after = cop.op,
                !.before = chunk, !.n = @ + 1]

\* an implementation of DataChunk that turns the chunk into one of the type
\* the operation belongs to instead of throwing
WrongKind_Converts(o) ==
    /\ chunk' = NewChunk(IF o = "get_proto" THEN PROTO ELSE COUNT)
    /\ cop' = Returned(o, NoRet)

\* the implementation of DataChunk: throw runtime_error("DataChunk is not
\* of type ...")
WrongKind(o) ==
    /\ chunk' = chunk
    /\ cop' = [Returned(o, NoRet) EXCEPT !.res = "WrongKind"]

get_proto ==
    /\ CanCall
    /\ IF chunk.type # PROTO
       THEN WrongKind("get_proto")
       ELSE /\ chunk' = chunk
            /\ cop' = Returned("get_proto",
                   IF chunk.quick_mode
                   THEN [NoRet EXCEPT
                           !.bytes = Bytes(chunk.quick_bytes, chunk.quick_size),
                           !.size = chunk.quick_size]
                   ELSE [NoRet EXCEPT
                           !.bytes = Bytes(chunk.bulk_bytes,
                                           U8(Len(chunk.bulk_bytes))),
                           !.size = U8(Len(chunk.bulk_bytes))])
    /\ UNCHANGED hvars

\* the client passes the buffer p and its length; the parameter is a uint8_t
set_proto(p) ==
    /\ CanCall
    /\ IF chunk.type # PROTO
       THEN /\ chunk' = chunk
            /\ cop' = [Returned("set_proto", NoRet) EXCEPT
                          !.res = "WrongKind", !.payload = p]
       ELSE LET new_bytes == Payload[p]
                sz == U8(p.len)
            IN  IF sz < quick_cap
                THEN /\ chunk' = [chunk EXCEPT
                          !.bulk_bytes = IF ~chunk.quick_mode THEN <<>> ELSE @,
                          !.quick_mode = TRUE,
                          !.quick_size = sz,
                          !.quick_bytes = [i \in 1..quick_cap |->
                                             IF i <= sz THEN new_bytes[i] ELSE @[i]]]
                     /\ cop' = [Returned("set_proto",
                                    [NoRet EXCEPT !.bytes = Bytes(new_bytes, sz),
                                                  !.size = sz])
                                EXCEPT !.payload = p]
                ELSE /\ chunk' = [chunk EXCEPT
                          !.quick_mode = FALSE,
                          !.bulk_bytes = Bytes(new_bytes, sz)]
                     /\ cop' = [Returned("set_proto",
                                    [NoRet EXCEPT !.bytes = Bytes(new_bytes, U8(sz)),
                                                  !.size = U8(sz)])
                                EXCEPT !.payload = p]
    /\ UNCHANGED hvars

get_count ==
    /\ CanCall
    /\ IF chunk.type # COUNT
       THEN WrongKind("get_count")
       ELSE /\ chunk' = chunk
            /\ cop' = Returned("get_count", [NoRet EXCEPT !.count = chunk.count])
    /\ UNCHANGED hvars

set_count(new_count) ==
    /\ CanCall
    /\ IF chunk.type # COUNT
       THEN /\ chunk' = chunk
            /\ cop' = [Returned("set_count", NoRet) EXCEPT
                          !.res = "WrongKind", !.val = new_count]
       ELSE /\ chunk' = [chunk EXCEPT !.count = new_count]
            /\ cop' = [Returned("set_count", [NoRet EXCEPT !.count = new_count])
                       EXCEPT !.val = new_count]
    /\ UNCHANGED hvars

\* "count += inc_count" on a counter that is 32 bits wide
AddAssign_32bit(count, inc) ==
    LET sum == Add64(count, ToU64(inc))
    IN  U64(0, 0, sum[3], sum[4])

\* "count += inc_count"
AddAssign(count, inc) == Add64(count, ToU64(inc))

inc_count(inc) ==
    /\ CanCall
    /\ IF chunk.type # COUNT
       THEN /\ chunk' = chunk
            /\ cop' = [Returned("inc_count", NoRet) EXCEPT
                          !.res = "WrongKind", !.delta = inc]
       ELSE LET sum == AddAssign(chunk.count, inc)
            IN  /\ chunk' = [chunk EXCEPT !.count = sum]
                /\ cop' = [Returned("inc_count", [NoRet EXCEPT !.count = sum])
                           EXCEPT !.delta = inc]
    /\ UNCHANGED hvars

\* the GroupChunk operations on a chunk by itself; ref is the other chunk
group_op(o, ref) ==
    /\ CanCall
    /\ IF chunk.type # GROUP
       THEN /\ chunk' = chunk
            /\ cop' = [Returned(o, NoRet) EXCEPT !.res = "WrongKind", !.ref = ref]
       ELSE LET g == IF o = "push_group" THEN chunk.group \cup {ref}
                     ELSE IF o = "del_group" THEN chunk.group \ {ref}
                     ELSE chunk.group
            IN  /\ chunk' = [chunk EXCEPT !.group = g]
                /\ cop' = [Returned(o, [NoRet EXCEPT !.group = g])
                           EXCEPT !.ref = ref]
    /\ UNCHANGED hvars

\* one chunk of any of the three types, default-constructed, and no table
InitChunk ==
    /\ ctor = "none"
    /\ size = 0
    /\ occupied = 0
    /\ map = <<>>
    /\ crashed = FALSE
    /\ held = NoHandle
    /\ last = NoOp
    /\ prev = NoOp
    /\ nops = 0
    /\ usedEmptyKey = FALSE
    /\ lock = <<>>
    /\ pc = [t \in Threads |-> "idle"]
    /\ loc = [t \in Threads |-> NoLocals]
    /\ yielded = {}
    /\ chunk \in {NewChunk(type) : type \in {PROTO, COUNT, GROUP}}
    /\ cop = NoChunkOp
    /\ hcall = NoHash

NextChunk ==
    \/ get_proto
    \/ \E p \in PayloadIds : set_proto(p)
    \/ get_count
    \/ \E v \in CountVals : set_count(v)
    \/ \E d \in Deltas : inc_count(d)
    \/ group_op("get_group", 0)
    \/ \E ref \in ChunkRefs : group_op("push_group", ref)
    \/ \E ref \in ChunkRefs : group_op("del_group", ref)

SpecChunk == InitChunk /\ [][NextChunk]_vars

(***************************************************************************)
(* The same operations executed by threads, one shared access per step     *)
(***************************************************************************)
\* capacity of the table the threads share
ConcSize == 2^1

\* the key as a probing thread may observe it without holding the lock: the
\* stored key, or, while another thread is assigning the key (a data race on
\* the std::string), the key being assigned or a torn string equal to no key
TornKey == <<0>>
KeyWriters(t, s) ==
    {u \in Threads \ {t} : pc[u] \in {"set_key", "del_key"} /\ loc[u].slot = s}
RacyKey(t, s) ==
    {map[s].key}
        \cup {IF pc[u] = "set_key" THEN loc[u].key ELSE EmptyKey :
                u \in KeyWriters(t, s)}
        \cup (IF KeyWriters(t, s) = {} THEN {} ELSE {TornKey})

CanStart(t) ==
    /\ ctor = "ok"
    /\ ~crashed
    /\ pc[t] = "idle"
    /\ nops < MaxConcOps

Running(t, p) == ~crashed /\ pc[t] = p

Goto(t, p) == pc' = [pc EXCEPT ![t] = p]

\* the statements of probe before its loop
EnterProbe(t, o, key, val) ==
    /\ loc' = [loc EXCEPT ![t] = [@ EXCEPT !.op = o, !.key = key, !.val = val,
                                           !.slot = Trim(KeyHash[key], size),
                                           !.att = 0, !.res = "none",
                                           !.out = NULL]]
    /\ Goto(t, "probe_test")
    /\ nops' = nops + 1
    /\ UNCHANGED <<ctor, size, occupied, map, crashed, held, last, prev,
                   usedEmptyKey, yielded, dvars, lock>>

CallGet(t, key) == CanStart(t) /\ EnterProbe(t, "get", key, 0)
CallSet(t, key, val) == CanStart(t) /\ EnterProbe(t, "set", key, val)
CallDel(t, key) == CanStart(t) /\ EnterProbe(t, "del", key, 0)

\* where get, set and del continue with the pointer probe returned
AfterProbe(o) ==
    IF o = "get" THEN "get_ctor" ELSE IF o = "set" THEN "set_lock" ELSE "del_lock"

\* one evaluation of the loop condition of probe, and the loop body if it holds
ProbeTest(t) ==
    /\ Running(t, "probe_test")
    /\ LET l == loc[t] IN
       \E k \in RacyKey(t, l.slot) :
          IF k = EmptyKey \/ k = l.key
          THEN \E r \in FlowsOffEnd(l.slot) :
                  /\ loc' = [loc EXCEPT ![t].slot = r]
                  /\ Goto(t, AfterProbe(l.op))
          ELSE IF l.att + 1 > size
               THEN /\ loc' = [loc EXCEPT ![t].slot = NULL]
                    /\ Goto(t, AfterProbe(l.op))
               ELSE /\ loc' = [loc EXCEPT
                                 ![t].slot = ProbeIdx(KeyHash[l.key], l.att, size),
                                 ![t].att = l.att + 1]
                    /\ UNCHANGED pc
    /\ UNCHANGED <<ctor, size, occupied, map, crashed, held, last, prev, nops,
                   usedEmptyKey, yielded, dvars, lock>>

\* a thread dereferences nullptr: the process is gone
ThreadNullDeref(t) ==
    /\ crashed' = TRUE
    /\ loc' = [loc EXCEPT ![t].res = "crash"]
    /\ UNCHANGED <<ctor, size, occupied, map, held, last, prev, nops,
                   usedEmptyKey, yielded, dvars, lock, pc>>

Unshared == <<ctor, size, held, last, prev, nops, usedEmptyKey, yielded, dvars>>

\* get: the SlotOperator constructor on the probed pointer
GetCtor(t) ==
    /\ Running(t, "get_ctor")
    /\ IF loc[t].slot = NULL
       THEN ThreadNullDeref(t)
       ELSE /\ loc' = [loc EXCEPT
                         ![t].h = SlotOperator(map, loc[t].slot, loc[t].key),
                         ![t].res = "handle"]
            /\ Goto(t, "idle")
            /\ UNCHANGED <<occupied, map, crashed, lock>>
            /\ UNCHANGED Unshared

\* unique_lock on the slot's lock; waits while the lock is held
LockUnique(t, from, to) ==
    /\ Running(t, from)
    /\ IF loc[t].slot = NULL
       THEN ThreadNullDeref(t)
       ELSE /\ lock[loc[t].slot] = FreeLock
            /\ lock' = [lock EXCEPT ![loc[t].slot].w = t]
            /\ Goto(t, to)
            /\ UNCHANGED <<occupied, map, crashed, loc>>
            /\ UNCHANGED Unshared

\* the end of the scope of a unique_lock
UnlockUnique(t, from, to) ==
    /\ Running(t, from)
    /\ lock' = [lock EXCEPT ![loc[t].slot].w = NoThread]
    /\ Goto(t, to)
    /\ UNCHANGED <<occupied, map, crashed, loc>>
    /\ UNCHANGED Unshared

\* an assignment to the slot's key or value under the unique lock
Assign(t, from, to, m2) ==
    /\ Running(t, from)
    /\ map' = m2
    /\ Goto(t, to)
    /\ UNCHANGED <<occupied, crashed, loc, lock>>
    /\ UNCHANGED Unshared

\* the threads' locals once a set or del has installed a new key and value
\* in slot s: every SlotOperator bound to s was obtained for what the slot
\* held before (for the properties only)
OutdatedAt(s) ==
    [u \in Threads |->
        IF loc[u].h # NoHandle /\ loc[u].h.slot = s
        THEN [loc[u] EXCEPT !.h.stale = TRUE]
        ELSE loc[u]]

\* the assignment to the slot's value under the unique lock, which completes
\* the new content of the slot
Install(t, from, to, m2) ==
    /\ Running(t, from)
    /\ map' = m2
    /\ loc' = OutdatedAt(loc[t].slot)
    /\ Goto(t, to)
    /\ UNCHANGED <<occupied, crashed, lock>>
    /\ UNCHANGED Unshared

SetLock(t) == LockUnique(t, "set_lock", "set_key")
SetKey(t) ==
    Assign(t, "set_key", "set_val", [map EXCEPT ![loc[t].slot].key = loc[t].key])
SetVal(t) ==
    Install(t, "set_val", "set_unlock", AssignVal(map, loc[t].slot, loc[t].val))
SetUnlock(t) == UnlockUnique(t, "set_unlock", "set_occ")

\* "occupied += slot->key == "" ? 1 : 0": the load of occupied and of the key
SetOccRead(t) ==
    /\ Running(t, "set_occ")
    /\ \E k \in RacyKey(t, loc[t].slot) :
          loc' = [loc EXCEPT ![t].tmp =
                     Wrap16(occupied + (IF k = EmptyKey THEN 1 ELSE 0))]
    /\ Goto(t, "set_ret")
    /\ UNCHANGED <<occupied, map, crashed, lock>>
    /\ UNCHANGED Unshared

\* the store to occupied, and the SlotOperator that set returns
SetRet(t) ==
    /\ Running(t, "set_ret")
    /\ occupied' = loc[t].tmp
    /\ loc' = [loc EXCEPT ![t].h = SlotOperator(map, loc[t].slot, loc[t].key),
                          ![t].res = "handle"]
    /\ Goto(t, "idle")
    /\ UNCHANGED <<map, crashed, lock>>
    /\ UNCHANGED Unshared

\* del returns at once when probe returned nullptr
DelLock(t) ==
    IF loc[t].slot = NULL
    THEN /\ Running(t, "del_lock")
         /\ loc' = [loc EXCEPT ![t].res = "returned"]
         /\ Goto(t, "idle")
         /\ UNCHANGED <<occupied, map, crashed, lock>>
         /\ UNCHANGED Unshared
    ELSE LockUnique(t, "del_lock", "del_key")
DelKey(t) ==
    Assign(t, "del_key", "del_val", [map EXCEPT ![loc[t].slot].key = EmptyKey])
DelVal(t) ==
    Install(t, "del_val", "del_unlock", AssignVal(map, loc[t].slot, DefaultVal))
DelUnlock(t) == UnlockUnique(t, "del_unlock", "del_occ")

\* "occupied--": the load
DelOccRead(t) ==
    /\ Running(t, "del_occ")
    /\ loc' = [loc EXCEPT ![t].tmp = Wrap16(occupied - 1)]
    /\ Goto(t, "del_ret")
    /\ UNCHANGED <<occupied, map, crashed, lock>>
    /\ UNCHANGED Unshared

\* "occupied--": the store
DelRet(t) ==
    /\ Running(t, "del_ret")
    /\ occupied' = loc[t].tmp
    /\ loc' = [loc EXCEPT ![t].res = "returned"]
    /\ Goto(t, "idle")
    /\ UNCHANGED <<map, crashed, lock>>
    /\ UNCHANGED Unshared

\* a thread calls read or write on the SlotOperator it holds
CallHandle(t, o, val) ==
    /\ CanStart(t)
    /\ loc[t].h # NoHandle
    /\ loc' = [loc EXCEPT ![t] = [@ EXCEPT !.op = o, !.key = loc[t].h.key,
                                           !.val = val, !.slot = loc[t].h.slot,
                                           !.res = "none", !.out = NULL]]
    /\ Goto(t, IF o = "read" THEN "read_check" ELSE "write_check")
    /\ nops' = nops + 1
    /\ UNCHANGED <<ctor, size, occupied, map, crashed, held, last, prev,
                   usedEmptyKey, yielded, dvars, lock>>

CallRead(t) == CallHandle(t, "read", 0)
CallWrite(t, val) == CallHandle(t, "write", val)

\* "if (slot_ptr->atom_id != operator_id) return false", before any lock
CheckId(t, from, to) ==
    /\ Running(t, from)
    /\ IF Invalidated(map, loc[t].h)
       THEN /\ loc' = [loc EXCEPT ![t].res = "false"]
            /\ Goto(t, "idle")
       ELSE /\ Goto(t, to)
            /\ UNCHANGED loc
    /\ UNCHANGED <<occupied, map, crashed, lock>>
    /\ UNCHANGED Unshared

ReadCheck(t) == CheckId(t, "read_check", "read_lock")

\* shared_lock on the slot's lock; waits while a thread owns it uniquely
ReadLock(t) ==
    /\ Running(t, "read_lock")
    /\ lock[loc[t].slot].w = NoThread
    /\ lock' = [lock EXCEPT ![loc[t].slot].r = @ \cup {t}]
    /\ Goto(t, "read_cb")
    /\ UNCHANGED <<occupied, map, crashed, loc>>
    /\ UNCHANGED Unshared

\* the callback receives the pointer to the value
ReadCallback(t) ==
    /\ Running(t, "read_cb")
    /\ loc' = [loc EXCEPT ![t].out = map[loc[t].slot].val]
    /\ Goto(t, "read_unlock")
    /\ UNCHANGED <<occupied, map, crashed, lock>>
    /\ UNCHANGED Unshared

ReadUnlock(t) ==
    /\ Running(t, "read_unlock")
    /\ lock' = [lock EXCEPT ![loc[t].slot].r = @ \ {t}]
    /\ loc' = [loc EXCEPT ![t].res = "true"]
    /\ Goto(t, "idle")
    /\ UNCHANGED <<occupied, map, crashed>>
    /\ UNCHANGED Unshared

WriteCheck(t) == CheckId(t, "write_check", "write_lock")
WriteLock(t) == LockUnique(t, "write_lock", "write_cb")

\* the callback changes the value through the pointer
WriteCallback(t) ==
    /\ Running(t, "write_cb")
    /\ map' = [map EXCEPT ![loc[t].slot].val = loc[t].val]
    /\ loc' = [loc EXCEPT ![t].out = loc[t].val]
    /\ Goto(t, "write_unlock")
    /\ UNCHANGED <<occupied, crashed, lock>>
    /\ UNCHANGED Unshared

WriteUnlock(t) ==
    /\ Running(t, "write_unlock")
    /\ lock' = [lock EXCEPT ![loc[t].slot].w = NoThread]
    /\ loc' = [loc EXCEPT ![t].res = "true"]
    /\ Goto(t, "idle")
    /\ UNCHANGED <<occupied, map, crashed>>
    /\ UNCHANGED Unshared

\* the threads start on a freshly constructed table
InitConc ==
    /\ ctor = "ok"
    /\ size = ConcSize
    /\ occupied = 0
    /\ map = [i \in 0..(ConcSize - 1) |-> HyperSlot]
    /\ crashed = FALSE
    /\ held = NoHandle
    /\ last = OpRec("construct", EmptyKey, ConcSize, NULL, "ok", NULL)
    /\ prev = NoOp
    /\ nops = 0
    /\ usedEmptyKey = FALSE
    /\ lock = [i \in 0..(ConcSize - 1) |-> FreeLock]
    /\ pc = [t \in Threads |-> "idle"]
    /\ loc = [t \in Threads |-> NoLocals]
    /\ yielded = {}
    /\ chunk = NoChunk
    /\ cop = NoChunkOp
    /\ hcall = NoHash

NextConc ==
    \E t \in Threads :
        \/ \E key \in ConcKeys : CallGet(t, key)
        \/ \E key \in ConcKeys, val \in Values : CallSet(t, key, val)
        \/ \E key \in ConcKeys : CallDel(t, key)
        \/ ProbeTest(t)
        \/ GetCtor(t)
        \/ SetLock(t)
        \/ SetKey(t)
        \/ SetVal(t)
        \/ SetUnlock(t)
        \/ SetOccRead(t)
        \/ SetRet(t)
        \/ DelLock(t)
        \/ DelKey(t)
        \/ DelVal(t)
        \/ DelUnlock(t)
        \/ DelOccRead(t)
        \/ DelRet(t)
        \/ CallRead(t)
        \/ \E val \in Values : CallWrite(t, val)
        \/ ReadCheck(t)
        \/ ReadLock(t)
        \/ ReadCallback(t)
        \/ ReadUnlock(t)
        \/ WriteCheck(t)
        \/ WriteLock(t)
        \/ WriteCallback(t)
        \/ WriteUnlock(t)

SpecConc == InitConc /\ [][NextConc]_vars

(***************************************************************************)
(* The table operations on a table that already holds two colliding keys   *)
(***************************************************************************)
\* capacity of that table, and the two keys: both hash to the same slot
CollideSize == 2^2
FirstKey == <<98>>
SecondKey == <<100>>

\* the table m after set(key, val) where probe handed back the slot its loop
\* stopped at
Stored(m, sz, key, val) ==
    LET slot == ProbeLoop(key, sz, m, Trim(KeyHash[key], sz), 0)
    IN  AssignVal([m EXCEPT ![slot].key = key], slot, val)

\* the table after HyperMap(4); set(FirstKey, 1); set(SecondKey, 1)
CollideTable ==
    Stored(Stored([i \in 0..(CollideSize - 1) |-> HyperSlot],
                  CollideSize, FirstKey, 1),
           CollideSize, SecondKey, 1)

\* the client has discarded the handles of the two inserts; nops counts the
\* operations from here
InitCollide ==
    /\ ctor = "ok"
    /\ size = CollideSize
    /\ occupied = 0
    /\ map = CollideTable
    /\ crashed = FALSE
    /\ held = NoHandle
    /\ last = OpRec("set", SecondKey, 1,
                    ProbeLoop(SecondKey, CollideSize, CollideTable,
                              Trim(KeyHash[SecondKey], CollideSize), 0),
                    "handle", NULL)
    /\ prev = OpRec("set", FirstKey, 1, Trim(KeyHash[FirstKey], CollideSize),
                    "handle", NULL)
    /\ nops = 0
    /\ usedEmptyKey = FALSE
    /\ lock = <<>>
    /\ pc = [t \in Threads |-> "idle"]
    /\ loc = [t \in Threads |-> NoLocals]
    /\ yielded = {}
    /\ chunk = NoChunk
    /\ cop = NoChunkOp
    /\ hcall = NoHash

NextCollide ==
    \/ \E key \in Keys : get(key)
    \/ \E key \in Keys, val \in Values, keep \in BOOLEAN : set(key, val, keep)
    \/ \E key \in Keys : del(key)
    \/ read
    \/ write(DefaultVal)
    \/ \E val \in Values : write(val)
    \/ iterate

SpecCollide == InitCollide /\ [][NextCollide]_vars

(***************************************************************************)
(* hyperhash called on its own                                             *)
(***************************************************************************)
\* the words handed to Mur: the small numbers and their complements
HashWords ==
    {U32(n) : n \in 0..MaxHashWord}
        \cup {Xor32(U32(n), W(TwoTo16 - 1, TwoTo16 - 1)) : n \in 0..MaxHashWord}

\* everything but the call into hyperhash
tvars == <<ctor, size, occupied, map, crashed, held, last, prev, nops,
           usedEmptyKey, lock, pc, loc, yielded, chunk, cop>>

\* Mur(a, h), called with two words
Mur_call(a, h) ==
    /\ hcall' = [fn |-> "Mur", key |-> EmptyKey, a |-> a, h |-> h,
                 mur |-> Mur(a, h), ret |-> Mur(a, h)]
    /\ UNCHANGED tvars

\* hash(key) for a key of at most four bytes: Hash32Len0to4 runs its loop,
\* calls Mur(len, c), then Mur(b, .) on the result, and returns the fmix of
\* that; a, h and mur are the arguments and the result of the outer Mur
hash_call(key) ==
    /\ LET bc == Len0to4Loop(key, 1, U32(0), U32(9))
           inner == Mur(U32(Len(key)), bc[2])
       IN  hcall' = [fn |-> "hash", key |-> key, a |-> bc[1], h |-> inner,
                     mur |-> Mur(bc[1], inner), ret |-> hash(key)]
    /\ UNCHANGED tvars

\* no table, no chunk, and no call into hyperhash yet
InitHash ==
    /\ ctor = "none"
    /\ size = 0
    /\ occupied = 0
    /\ map = <<>>
    /\ crashed = FALSE
    /\ held = NoHandle
    /\ last = NoOp
    /\ prev = NoOp
    /\ nops = 0
    /\ usedEmptyKey = FALSE
    /\ lock = <<>>
    /\ pc = [t \in Threads |-> "idle"]
    /\ loc = [t \in Threads |-> NoLocals]
    /\ yielded = {}
    /\ chunk = NoChunk
    /\ cop = NoChunkOp
    /\ hcall = NoHash

NextHash ==
    \/ \E a \in HashWords, h \in HashWords : Mur_call(a, h)
    \/ \E key \in Keys : hash_call(key)

SpecHash == InitHash /\ [][NextHash]_vars

(***************************************************************************)
(* Properties                                                              *)
(***************************************************************************)
\* the slots that hold a key
OccupiedSlots == {i \in DOMAIN map : map[i].key # EmptyKey}

\* the slot at which the probe loop for key stops in the current table
ProbeStop(key) == ProbeLoop(key, size, map, Trim(KeyHash[key], size), 0)

\* the tables the operations are explored on
SmallTable == ctor = "ok" /\ size <= MaxSmallSize

\* C1: for every non-empty key K and value V, when insert(K,V) succeeds the
\* immediately following lookup(K) returns a handle, and the read of that
\* handle delivers exactly V to the callback.
C1_InsertLookupRead ==
    [][ /\ ( /\ last.op = "set" /\ last.res = "handle" /\ last.key # EmptyKey
             /\ last'.op = "get" /\ last'.key = last.key )
           => last'.res = "handle"
        /\ ( /\ prev.op = "set" /\ prev.res = "handle" /\ prev.key # EmptyKey
             /\ last.op = "get" /\ last.key = prev.key
             /\ last'.op = "read" )
           => (last.res = "handle" /\ last'.res = "true"
               /\ last'.out = prev.val) ]_vars

\* C2: for every key K, after remove(K) the immediately following lookup(K)
\* yields none (no handle), whether or not K was present.
C2_RemoveThenLookupNone ==
    (prev.op = "del" /\ prev.key # EmptyKey /\ last.op = "get"
     /\ last.key = prev.key)
        => last.res # "handle"

\* C3: remove-shift soundness: every key stored in an occupied slot is the
\* slot at which the probe sequence of that key stops, so no empty slot
\* precedes it on its probe path.
C3_EveryKeyReachable ==
    (SmallTable /\ ~usedEmptyKey)
        => \A i \in OccupiedSlots : ProbeStop(map[i].key) = i

\* C4: once the key of a handle was removed or re-inserted, every read and
\* write of the handle returns Invalidated and invokes no callback.
C4_StaleHandleInvalidated ==
    (last.op \in {"read", "write"} /\ held.stale /\ held.key # EmptyKey)
        => (last.res = "false" /\ last.out = NULL)

\* C5: handle.read compares the slot's generation with the captured one only
\* while it holds the slot's shared lock, invokes the callback only while it
\* holds the lock with the generations equal, and holds no lock when it
\* has returned.
C5_ReadChecksUnderLock ==
    \A t \in Threads :
        /\ pc[t] = "read_check" => t \in lock[loc[t].slot].r
        /\ pc[t] = "read_cb" =>
              (t \in lock[loc[t].slot].r /\ ~Invalidated(map, loc[t].h))
        /\ pc[t] = "idle" =>
              \A i \in DOMAIN lock : t \notin lock[i].r /\ lock[i].w # t

\* thread t is inside a step sequence that assigns slot s's key or value
Modifying(t, s) ==
    /\ loc[t].slot = s
    /\ pc[t] \in {"set_key", "set_val", "del_key", "del_val", "write_cb"}

\* the next step of thread t reads or assigns slot s's key or value
Accessing(t, s) ==
    /\ loc[t].slot = s
    /\ pc[t] \in {"set_key", "set_val", "del_key", "del_val", "write_cb",
                  "read_cb", "probe_test", "set_occ"}

\* C6: per-slot mutual exclusion: while a write callback, an insert or a
\* remove modifies a slot's key or value, no other thread accesses that
\* slot's key or value.
C6_SlotMutualExclusion ==
    \A t \in Threads, u \in Threads, s \in DOMAIN map :
        t # u => ~(Modifying(t, s) /\ Accessing(u, s))

\* C7: load() equals the number of slots whose key is non-empty.
C7_LoadCountsOccupied ==
    (ctor = "ok" /\ ~usedEmptyKey) => load = Cardinality(OccupiedSlots)

\* C8: probe completeness: whenever the table has an empty slot, the probe
\* for a key that is not in the table stops at a slot within N probes
\* instead of declaring the table full.
C8_ProbeComplete ==
    (SmallTable /\ ~usedEmptyKey) =>
        \A key \in Keys \ {EmptyKey} :
            ( /\ \A i \in DOMAIN map : map[i].key # key
              /\ \E i \in DOMAIN map : map[i].key = EmptyKey )
            => ProbeStop(key) # NULL

\* C9: when no slot on the probe path of K is empty or holds K, insert(K,V)
\* fails with TableFull, changes nothing, and the table stays usable.
C9_TableFullIsRecoverable ==
    (SmallTable /\ ~usedEmptyKey /\ last.op = "set"
     /\ ProbeStop(last.key) = NULL)
        => (last.res = "TableFull" /\ ~crashed)

IsPowerOfTwo(n) == \E k \in 0..16 : n = 2^k

AllSlotsEmpty == \A i \in DOMAIN map : map[i] = HyperSlot

\* C10 as stated: construct(N) succeeds exactly when N is a power of two
\* with 2 <= N <= 2^16, yielding N empty slots and load() = 0, and fails
\* with BadCapacity for every other N.
C10_AsStated ==
    last.op = "construct" =>
        IF IsPowerOfTwo(last.val) /\ 2 <= last.val /\ last.val <= 2^16
        THEN /\ last.res = "ok"
             /\ DOMAIN map = 0..(last.val - 1)
             /\ AllSlotsEmpty
             /\ load = 0
        ELSE last.res = "BadCapacity"

\* C10 amended: for N in 0..2^16, construct(N) succeeds exactly when N is a
\* power of two with 1 <= N <= 2^15, yielding N empty slots and load() = 0,
\* and fails with BadCapacity for every other N (2^16 included).
C10_Construct ==
    last.op = "construct" =>
        IF IsPowerOfTwo(last.val) /\ 1 <= last.val /\ last.val <= 2^15
        THEN /\ last.res = "ok"
             /\ size = last.val
             /\ DOMAIN map = 0..(last.val - 1)
             /\ AllSlotsEmpty
             /\ load = 0
        ELSE last.res = "BadCapacity"

C10_Witness ==
    /\ last.op = "construct"
    /\ last.res = "ok"
    /\ size = 2^15
    /\ Cardinality(DOMAIN map) = 2^15

\* C11: GROUP integrity: once a member that was added to a group has been
\* removed from the table, no enumeration of the group yields a reference
\* to the member's former slot that is still valid: the reference is gone
\* from the group or its captured generation differs from the slot's.
C11_GroupIntegrity ==
    (last.op = "get_group" /\ last.res = "ok") =>
        \A r \in yielded : r.stale => Invalidated(map, r)

\* C12: BLOB round trip: for every byte sequence b of length 0..65536 and
\* every prior state of the chunk (inline or spilled), set_proto(b, len(b))
\* followed by get_proto returns the length len(b) and bytes equal to b.
C12_BlobRoundTrip ==
    (cop.op = "get_proto" /\ cop.after = "set_proto" /\ cop.res = "ok") =>
        /\ cop.ret.size = cop.payload.len
        /\ cop.ret.bytes = Payload[cop.payload]

\* bit i (0 the least significant) of a uint64_t
BitOf(w, i) == (w[4 - (i \div 16)] \div (2^(i % 16))) % 2

\* the 64 low bits of a + b, resp. of a - b, bit by bit with a carry, resp.
\* a borrow, from bit i on
RECURSIVE SumBits(_, _, _, _)
SumBits(a, b, i, carry) ==
    IF i = 64 THEN <<>>
    ELSE LET t == BitOf(a, i) + BitOf(b, i) + carry
         IN  <<t % 2>> \o SumBits(a, b, i + 1, t \div 2)

RECURSIVE DiffBits(_, _, _, _)
DiffBits(a, b, i, borrow) ==
    IF i = 64 THEN <<>>
    ELSE LET t == BitOf(a, i) - BitOf(b, i) - borrow
         IN  <<t % 2>> \o DiffBits(a, b, i + 1, IF t < 0 THEN 1 ELSE 0)

\* (c + d) mod 2^64 for a counter c and a signed delta d, as bits
ModSum(c, d) ==
    IF d.neg THEN DiffBits(c, d.mag, 0, 0) ELSE SumBits(c, d.mag, 0, 0)

AllBits(w) == [i \in 1..64 |-> BitOf(w, i - 1)]

Max64 == U64(65535, 65535, 65535, 65535)

\* C13: COUNT arithmetic is modulo 2^64: inc_count(d) on a counter c stores
\* and returns (c + d) mod 2^64 for every signed delta d, so 2^64-1
\* incremented by 1 yields 0 and 0 incremented by -1 yields 2^64-1; and
\* set_count(v) followed by get_count returns v.
C13_CountModular ==
    /\ (cop.op = "inc_count" /\ cop.res = "ok") =>
          /\ AllBits(cop.ret.count) = ModSum(cop.before.count, cop.delta)
          /\ chunk.count = cop.ret.count
          /\ (cop.before.count = Max64 /\ cop.delta = [neg |-> FALSE, mag |-> U64(0, 0, 0, 1)])
                => cop.ret.count = Zero64
          /\ (cop.before.count = Zero64 /\ cop.delta = [neg |-> TRUE, mag |-> U64(0, 0, 0, 1)])
                => cop.ret.count = Max64
    /\ (cop.op = "get_count" /\ cop.after = "set_count" /\ cop.res = "ok") =>
          cop.ret.count = cop.val

\* a counter at 0 was incremented by -1 and holds 2^64-1
C13_Witness ==
    /\ cop.op = "inc_count"
    /\ cop.res = "ok"
    /\ cop.before.count = Zero64
    /\ cop.delta = [neg |-> TRUE, mag |-> U64(0, 0, 0, 1)]
    /\ chunk.count = Max64

\* the type whose class implements the operation
KindOf(o) ==
    IF o \in {"get_proto", "set_proto"} THEN PROTO
    ELSE IF o \in {"get_count", "set_count", "inc_count"} THEN COUNT
    ELSE GROUP

\* C14: every variant-specific operation (BLOB read/write, COUNT
\* read/write/increment, GROUP members/add/remove) invoked on a chunk of a
\* different kind fails with WrongKind and leaves the chunk, its kind and
\* the table's slots (their generations included) unchanged.
C14_WrongKindFails ==
    (cop.op # "none" /\ KindOf(cop.op) # cop.before.type) =>
        /\ cop.res = "WrongKind"
        /\ chunk = cop.before
        /\ chunk.type = cop.before.type
        /\ map = <<>>

\* a counter operation was invoked on a ProtoChunk that holds bytes
C14_Witness ==
    /\ cop.op = "inc_count"
    /\ cop.res = "WrongKind"
    /\ chunk.type = PROTO
    /\ chunk.quick_size > 0

\* C15: on a table that is not mutated meanwhile, the iteration yields
\* exactly one handle for each occupied slot, in ascending slot index,
\* none for an empty slot and none twice, and ends at the end of the slot
\* array.
C15_IterateOccupied ==
    last.op = "iterate" =>
        LET n == Cardinality(OccupiedSlots)
        IN  /\ {y.h.slot : y \in yielded} = OccupiedSlots
            /\ Cardinality(yielded) = n
            /\ {y.pos : y \in yielded} = 1..n
            /\ \A y \in yielded, z \in yielded :
                  y.pos < z.pos => y.h.slot < z.h.slot
            /\ \A y \in yielded :
                  /\ y.h.key = map[y.h.slot].key
                  /\ y.h.operator_id = map[y.h.slot].atom_id

\* an iteration over a table of four slots, two of them occupied
C15_Witness ==
    /\ last.op = "iterate"
    /\ size = 4
    /\ Cardinality(yielded) = 2
    /\ map[1].key = EmptyKey

\* the step completes an operation of the client on a constructed table
Completes(o) == ctor = "ok" /\ nops' = nops + 1 /\ last'.op = o

C17_DeadlockFree ==
    /\ \A t \in Threads :
          Cardinality({i \in DOMAIN lock : lock[i].w = t \/ t \in lock[i].r}) <= 1
    /\ (\E t \in Threads : pc[t] # "idle") => ENABLED NextConc

\* C18: the mutation made by a successful handle.write on key K is what the
\* read of the handle of the next lookup(K) delivers, and the write changes
\* no slot but the one of K.
C18_WriteVisibleAndFramed ==
    [][ /\ ( /\ last.op = "write" /\ last.res = "true" /\ last.key # EmptyKey
             /\ map[last.slot].key = last.key
             /\ Completes("get") /\ last'.key = last.key )
           => last'.res = "handle"
        /\ ( /\ prev.op = "write" /\ prev.res = "true" /\ prev.key # EmptyKey
             /\ last.op = "get" /\ last.key = prev.key
             /\ Completes("read") )
           => (last.res = "handle" /\ last'.res = "true"
               /\ last'.out = prev.val)
        /\ Completes("write")
           => \A i \in DOMAIN map : i # last'.slot => map'[i] = map[i] ]_vars

\* C19: a slot's generation never decreases, and it strictly increases on
\* every insert into the slot (fresh or overwriting) and on every remove
\* of the slot's key.
C19_GenerationMonotonic ==
    [][ctor = "ok" =>
          \A i \in DOMAIN map :
              /\ map'[i].atom_id >= map[i].atom_id
              /\ ( /\ last'.slot = i /\ last'.key # EmptyKey
                   /\ \/ Completes("set")
                      \/ Completes("del") /\ map[i].key = last'.key )
                 => map'[i].atom_id > map[i].atom_id ]_vars

\* C20: in every quiescent state a slot whose key is empty holds the
\* default-constructed value, and when a slot turns from occupied to empty
\* its generation moves past the one of that occupancy.
C20_EmptySlotIsReset ==
    [][(ctor = "ok" /\ ~usedEmptyKey') =>
          \A i \in DOMAIN map :
              /\ map'[i].key = EmptyKey => map'[i].val = DefaultVal
              /\ (map[i].key # EmptyKey /\ map'[i].key = EmptyKey)
                    => map'[i].atom_id > map[i].atom_id ]_vars

\* C21: set_proto selects the representation by length: a payload of at
\* most 255 bytes is stored inline, the mode flag says inline and the
\* spilled buffer is empty; a longer payload is stored in the spilled
\* buffer and the mode flag says spilled; get_proto returns the
\* representation the mode flag selects.
C21_RepresentationByLength ==
    /\ (cop.op = "set_proto" /\ cop.res = "ok") =>
          IF cop.payload.len <= quick_cap
          THEN /\ chunk.quick_mode
               /\ chunk.quick_size = cop.payload.len
               /\ Bytes(chunk.quick_bytes, chunk.quick_size) = Payload[cop.payload]
               /\ chunk.bulk_bytes = <<>>
          ELSE /\ ~chunk.quick_mode
               /\ chunk.bulk_bytes = Payload[cop.payload]
    /\ (cop.op = "get_proto" /\ cop.res = "ok") =>
          cop.ret.bytes = IF chunk.quick_mode
                          THEN Bytes(chunk.quick_bytes, chunk.quick_size)
                          ELSE chunk.bulk_bytes

C23_RemoveUnregistersBothWays ==
    [][( /\ Completes("del_group") /\ last'.res = "ok"
         /\ \E r \in map[held.slot].group : r.slot = last'.slot ) =>
          LET g == held.slot
              m == last'.slot
          IN  /\ \A r \in map'[g].group : r.slot # m
              /\ \A b \in map'[m].group_assignments : b.slot # g
              /\ map'[g].group = {r \in map[g].group : r.slot # m}
              /\ {b \in map'[m].group_assignments : b.slot # g}
                    = {b \in map[m].group_assignments : b.slot # g} ]_vars

\* C24: back-reference cleanup completes: once a member was removed or
\* overwritten and a following read-only operation has returned too, no
\* group holds the forward reference to it any more; and once a group was
\* deleted or overwritten into a non-group, no former member holds the
\* back-reference to it any more.  The code runs only inside the client's
\* operations, so a cleanup that has not happened by then never happens.
C24_CleanupCompletes ==
    ( /\ prev.op \in {"set", "del"}
      /\ prev.slot # NULL
      /\ prev.key # EmptyKey
      /\ last.op \in {"get", "get_group"}
      /\ last.res # "crash" ) =>
        \A i \in DOMAIN map :
            /\ \A r \in map[i].group :
                  ~(r.slot = prev.slot /\ r.key = prev.key)
            /\ (prev.op = "del" \/ prev.val # GroupChunk) =>
                  \A b \in map[i].group_assignments :
                      ~(b.slot = prev.slot /\ b.key = prev.key)

\* C25: lookup(K) is read-only: it leaves every slot's key, value and
\* generation and the occupied count unchanged and holds no lock when it
\* has returned, and it returns none exactly when the probe for K stops at
\* an empty slot or exhausts the table, a handle otherwise.
C25_LookupReadOnly ==
    [][(Completes("get") /\ last'.key # EmptyKey) =>
          LET stop == ProbeStop(last'.key)
              absent == stop = NULL \/ map[stop].key = EmptyKey
          IN  /\ map' = map
              /\ occupied' = occupied
              /\ lock' = lock
              /\ absent => last'.res = "none"
              /\ ~absent => (last'.res = "handle" /\ last'.slot = stop) ]_vars

\* C26: remove(K) for a key K that is not in the table is a no-op: it
\* changes no slot's key, value or generation and leaves the occupied count
\* as it was, whether the probe ends at an empty slot or finds no slot.
C26_RemoveAbsentNoOp ==
    [][( /\ Completes("del") /\ last'.key # EmptyKey
         /\ \A i \in DOMAIN map : map[i].key # last'.key ) =>
          /\ map' = map
          /\ occupied' = occupied
          /\ load' <= Cardinality(DOMAIN map) ]_vars

\* C27: key uniqueness: no non-empty key is stored in more than one slot.
C27_KeyUnique ==
    SmallTable =>
        \A i \in DOMAIN map, j \in DOMAIN map :
            (i # j /\ map[i].key # EmptyKey) => map[i].key # map[j].key

\* C28: no lost insert: when the two threads have inserted two distinct
\* keys and both inserts have returned a handle, both keys are stored, each
\* in a slot of its own with its own value.
C28_NoLostInsert ==
    ( /\ nops = 2
      /\ \A t \in Threads :
            pc[t] = "idle" /\ loc[t].op = "set" /\ loc[t].res = "handle"
      /\ loc[1].key # loc[2].key ) =>
        \A t \in Threads :
            \E i \in DOMAIN map :
                map[i].key = loc[t].key /\ map[i].val = loc[t].val

\* C29: the empty key is never stored as an entry: an insert with the empty
\* string as key installs no value in any slot and does not change the
\* occupied count, so that afterwards no slot has an empty key and a
\* non-default value.
C29_EmptyKeyNotStored ==
    [][(Completes("set") /\ last'.key = EmptyKey /\ ~crashed') =>
          /\ map' = map
          /\ occupied' = occupied
          /\ (\A i \in DOMAIN map : map[i].key = EmptyKey => map[i].val = DefaultVal)
                => (\A i \in DOMAIN map' :
                        map'[i].key = EmptyKey => map'[i].val = DefaultVal) ]_vars

\* C30: publication order: a thread that captured a slot's generation with
\* its handle and runs its read callback under the slot's lock with the
\* slot's generation still equal to the captured one sees the key and value
\* of that generation, never those a later insert or remove installed.
C30_PublicationOrder ==
    \A t \in Threads :
        ( /\ pc[t] = "read_cb"
          /\ t \in lock[loc[t].slot].r
          /\ ~Invalidated(map, loc[t].h) ) => ~loc[t].h.stale

RECURSIVE NumBits(_, _)
NumBits(n, k) == IF k = 0 THEN <<>> ELSE <<n % 2>> \o NumBits(n \div 2, k - 1)

\* the 32 bits of a word, least significant first
WordBits(w) == NumBits(w[2], 16) \o NumBits(w[1], 16)

\* the bits of a number written as k hexadecimal digits, most significant
\* digit first
RECURSIVE HexBits(_, _)
HexBits(digits, k) ==
    IF k = 0 THEN <<>> ELSE NumBits(digits[k], 4) \o HexBits(digits, k - 1)

\* The operators below bind every intermediate result as the element of a
\* one-element set, so that it is computed once and not once per use.

\* x + y modulo 2^32 from bit i upwards, bit by bit with a carry
RECURSIVE AddBitsFrom(_, _, _, _)
AddBitsFrom(x, y, i, carry) ==
    IF i > 32 THEN <<>>
    ELSE CHOOSE sum \in {<<t % 2>> \o AddBitsFrom(x, y, i + 1, t \div 2) :
                            t \in {x[i] + y[i] + carry}} : TRUE

AddBits(x, y) ==
    CHOOSE sum \in {AddBitsFrom(xv, yv, 1, 0) : xv \in {x}, yv \in {y}} : TRUE

\* x * y modulo 2^32 from bit k upwards: bit k of the product is the number
\* of pairs of set bits x[i], y[j] with (i-1) + (j-1) = k-1, plus the carry
\* of the bits below, modulo 2
RECURSIVE MulBitsFrom(_, _, _, _)
MulBitsFrom(x, y, k, carry) ==
    IF k > 32 THEN <<>>
    ELSE CHOOSE prod \in
            {<<t % 2>> \o MulBitsFrom(x, y, k + 1, t \div 2) :
                t \in {carry + Cardinality({i \in 1..k :
                                               x[i] = 1 /\ y[k + 1 - i] = 1})}} :
            TRUE

MulBits(x, y) ==
    CHOOSE prod \in {MulBitsFrom(xv, yv, 1, 0) : xv \in {x}, yv \in {y}} : TRUE

RECURSIVE XorBitsFrom(_, _, _)
XorBitsFrom(x, y, i) ==
    IF i > 32 THEN <<>>
    ELSE <<(x[i] + y[i]) % 2>> \o XorBitsFrom(x, y, i + 1)

XorBits(x, y) ==
    CHOOSE b \in {XorBitsFrom(xv, yv, 1) : xv \in {x}, yv \in {y}} : TRUE

\* left rotation by r, 0 < r < 32: the top r bits of x become the low ones
RotlBits(x, r) ==
    CHOOSE b \in {SubSeq(xv, 33 - r, 32) \o SubSeq(xv, 1, 32 - r) :
                     xv \in {x}} : TRUE

\* right rotation by r, 0 < r < 32: the low r bits of x become the top ones
RotrBits(x, r) ==
    CHOOSE b \in {SubSeq(xv, r + 1, 32) \o SubSeq(xv, 1, r) : xv \in {x}} : TRUE

\* the rotation by r, to the left or to the right
RotBits(x, r, left) == IF left THEN RotlBits(x, r) ELSE RotrBits(x, r)

\* rot(a*c1, 17)*c2 modulo 2^32, with c1 = 0xcc9e2d51 and c2 = 0x1b873593
Stirred(a, left) ==
    MulBits(RotBits(MulBits(WordBits(a),
                            HexBits(<<12, 12, 9, 14, 2, 13, 5, 1>>, 8)),
                    17, left),
            HexBits(<<1, 11, 8, 7, 3, 5, 9, 3>>, 8))

\* rot(h XOR (rot(a*c1, 17)*c2), 19)*5 + 0xe6546b64 modulo 2^32, rot being
\* the left rotation or the right one
Combined(a, h, left) ==
    AddBits(MulBits(RotBits(XorBits(WordBits(h), Stirred(a, left)), 19, left),
                    HexBits(<<0, 0, 0, 0, 0, 0, 0, 5>>, 8)),
            HexBits(<<14, 6, 5, 4, 6, 11, 6, 4>>, 8))

\* C32 as stated: the hash combiner maps every pair of 32-bit words (a, h)
\* to rotl(h XOR (rotl(a*c1, 17)*c2), 19)*5 + 0xe6546b64, rotl being the
\* 32-bit left rotation
C32_AsStated ==
    hcall.fn # "none" => WordBits(hcall.mur) = Combined(hcall.a, hcall.h, TRUE)

\* C32: the hash combiner maps every pair of 32-bit words (a, h) to
\* rotr(h XOR (rotr(a*c1, 17)*c2), 19)*5 + 0xe6546b64 with c1 = 0xcc9e2d51,
\* c2 = 0x1b873593, all arithmetic modulo 2^32 and rotr the 32-bit right
\* rotation, both when it is called with two words and when hash calls it
\* on a key
C32_CombinerRotatesRight ==
    hcall.fn # "none" => WordBits(hcall.mur) = Combined(hcall.a, hcall.h, FALSE)

\* the combiner was called with a = 1 and h = 0, a pair on which the left
\* and the right rotation give different words, and returned its word
C32_Witness ==
    /\ hcall.fn = "Mur"
    /\ hcall.a = U32(1)
    /\ hcall.h = U32(0)
    /\ Combined(hcall.a, hcall.h, TRUE) # Combined(hcall.a, hcall.h, FALSE)
    /\ WordBits(hcall.ret) = Combined(hcall.a, hcall.h, FALSE)

====
